---- MODULE Spec2Model ----
(***************************************************************************)
(* Model of the diff-to-position subsystem of the package `reviewer`       *)
(* (src/src/reviewer/main.py): parse_diff_with_positions and its fallback  *)
(* parse_diff_manual, filter_hunks_by_file, analyze_hunks, submit_review   *)
(* and the value main returns.                                             *)
(*                                                                         *)
(* A diff text is modelled as the sequence of its physical lines, every    *)
(* line terminated by "\n" (what the host's diff endpoint returns).  A     *)
(* line is a record [k, f, n]: its kind k (what its leading characters     *)
(* are), the file name f it carries and the line count n a range header    *)
(* declares.  A Python str is modelled as a sequence of tokens, each an    *)
(* atom (a run of characters holding no line break) or NL ("\n").          *)
(***************************************************************************)
EXTENDS Integers, Sequences, FiniteSets, TLC

\* ------------------------------------------------------------- bounds
MaxSegs == 4
MaxFiles == 2
MaxBody == 2
MaxPatterns == 2
MaxFindings == 2

\* ------------------------------------------------------ strings, lines
NL == "\n"

RECURSIVE JoinNL(_)
\* "\n".join(parts): the parts concatenated, one NL between two parts.
JoinNL(parts) ==
  IF parts = <<>> THEN <<>>
  ELSE IF Len(parts) = 1 THEN parts[1]
  ELSE parts[1] \o <<NL>> \o JoinNL(Tail(parts))

RECURSIVE SplitAcc(_, _, _)
SplitAcc(text, cur, open) ==
  IF text = <<>> THEN (IF open THEN <<cur>> ELSE <<>>)
  ELSE IF Head(text) = NL THEN <<cur>> \o SplitAcc(Tail(text), <<>>, FALSE)
  ELSE SplitAcc(Tail(text), Append(cur, Head(text)), TRUE)

\* str.splitlines(): the lines of a text without their line breaks; a final
\* line break opens no further (empty) line, and "" has no line at all.
splitlines(text) == SplitAcc(text, <<>>, FALSE)

\* File names, as sequences of characters: the k-th file of a diff is
\* FileNames[k].
FileNames == << <<"r", ".", "m">>, <<"s", "/", "a">>, <<"s", "/", "b">>, <<"t">> >>
DevNull == <<"/dev/null">>

Line(k, f, n) == [k |-> k, f |-> f, n |-> n]

\* The characters of a physical line, without its line break.
RawText(line) ==
  CASE line.k = "blank" -> <<>>
    [] line.k = "body" -> <<"+x">>
    [] OTHER -> <<line.k>>

\* --------------------------------------------------- the diffs explored
SeqsUpTo(S, n) == UNION { [1..m -> S] : m \in 0..n }

\* A hunk body: up to MaxBody changed lines, or an empty line alone, or a
\* changed line and an empty line.
Bodies ==
  { [j \in 1..n |-> Line("body", <<>>, 0)] : n \in 0..MaxBody }
    \cup { <<Line("blank", <<>>, 0)>>, <<Line("body", <<>>, 0), Line("blank", <<>>, 0)>> }

\* A diff is a sequence of segments: the header lines of a modified or of a
\* deleted file, or a hunk (its range header and its body).
Segments ==
  [t : {"file"}, kind : {"modify", "delete"}, body : {<<>>}]
    \cup [t : {"hunk"}, kind : {""}, body : Bodies]

NFiles(segs) == Cardinality({ j \in DOMAIN segs : segs[j].t = "file" })

DiffSpecs ==
  { d \in [segs : SeqsUpTo(Segments, MaxSegs), defect : {"none", "truncated", "junk"}] :
      /\ d.segs # <<>>
      /\ d.segs[1].t = "file"
      /\ NFiles(d.segs) <= MaxFiles }

FileHeader(kind, f) ==
  IF kind = "delete"
  THEN << Line("git", f, 0), Line("delmode", <<>>, 0), Line("index", <<>>, 0),
          Line("src", f, 0), Line("tgtnull", <<>>, 0) >>
  ELSE << Line("git", f, 0), Line("index", <<>>, 0),
          Line("src", f, 0), Line("tgt", f, 0) >>

RECURSIVE RenderSegs(_, _, _, _)
\* short: the last range header declares one line more than the text holds.
RenderSegs(segs, j, nfile, short) ==
  IF j > Len(segs) THEN <<>>
  ELSE IF segs[j].t = "file"
       THEN FileHeader(segs[j].kind, FileNames[nfile + 1])
              \o RenderSegs(segs, j + 1, nfile + 1, short)
       ELSE LET decl == Len(segs[j].body) + (IF j = Len(segs) /\ short THEN 1 ELSE 0)
            IN <<Line("hdr", <<>>, decl)>> \o segs[j].body
                 \o RenderSegs(segs, j + 1, nfile, short)

Render(d) ==
  RenderSegs(d.segs, 1, 0, d.defect = "truncated")
    \o (IF d.defect = "junk" THEN <<Line("junk", <<>>, 0)>> ELSE <<>>)

Diffs == { Render(d) : d \in DiffSpecs }

\* ------------------------------------------------- unidiff's PatchSet
\* A file reference as unidiff keeps it: "a/<name>", "b/<name>" or /dev/null.
Ref(pfx, name) == [pfx |-> pfx, name |-> name]
DEV_NULL == Ref("", DevNull)
Unbound == Ref("?", <<>>)

\* A Line of a Hunk: line_type and value; value keeps the line's "\n".
HunkLine(line) ==
  CASE line.k = "body" -> [line_type |-> "+", value |-> <<"x", NL>>]
    [] line.k = "blank" -> [line_type |-> " ", value |-> <<NL>>]
    [] line.k \in {"src"} -> [line_type |-> "-", value |-> <<"-- a/", NL>>]
    [] OTHER -> [line_type |-> "+", value |-> <<"++ ", NL>>]

\* The lines _parse_hunk accepts as a hunk's body: they start with one of
\* "+", "-", " ", "\", or are empty.
ValidHunkLine(line) == line.k \in {"body", "blank", "src", "tgt", "tgtnull"}

RECURSIVE ParseHunk(_, _, _, _)
\* PatchedFile._parse_hunk: reads lines from index i until the declared
\* number of lines is reached. [raised, hunk, next].
ParseHunk(lines, i, decl, acc) ==
  IF i > Len(lines)
  THEN [raised |-> Len(acc) < decl, hunk |-> acc, next |-> i]
  ELSE IF ~ValidHunkLine(lines[i]) THEN [raised |-> TRUE, hunk |-> acc, next |-> i]
  ELSE IF Len(acc) + 1 > decl THEN [raised |-> TRUE, hunk |-> acc, next |-> i]
  ELSE IF Len(acc) + 1 = decl
       THEN [raised |-> FALSE, hunk |-> Append(acc, HunkLine(lines[i])), next |-> i + 1]
       ELSE ParseHunk(lines, i + 1, decl, Append(acc, HunkLine(lines[i])))

PatchedFile(source, target) == [source_file |-> source, target_file |-> target, hunks |-> <<>>]

RECURSIVE PatchSetParse(_, _, _, _, _, _)
\* PatchSet._parse: files is the PatchSet so far, cur the index of
\* current_file (0: None), pinfo whether patch_info is not None, srcv the
\* local source_file.  [raised, files].
PatchSetParse(lines, i, files, cur, pinfo, srcv) ==
  IF i > Len(lines) THEN [raised |-> FALSE, files |-> files]
  ELSE
    LET line == lines[i]
        fail == [raised |-> TRUE, files |-> files]
        info == IF pinfo THEN PatchSetParse(lines, i + 1, files, cur, TRUE, srcv)
                ELSE PatchSetParse(lines, i + 1, files, 0, TRUE, srcv)
    IN CASE line.k = "git" ->
              PatchSetParse(lines, i + 1,
                Append(files, PatchedFile(Ref("a/", line.f), Ref("b/", line.f))),
                Len(files) + 1, TRUE, srcv)
         [] line.k = "delmode" ->
              IF cur = 0 \/ ~pinfo THEN fail
              ELSE PatchSetParse(lines, i + 1,
                     [files EXCEPT ![cur].target_file = DEV_NULL], cur, pinfo, srcv)
         [] line.k = "src" ->
              LET s == Ref("a/", line.f)
              IN PatchSetParse(lines, i + 1, files,
                   IF cur # 0 /\ files[cur].source_file # s THEN 0 ELSE cur, pinfo, s)
         [] line.k \in {"tgt", "tgtnull"} ->
              LET t == IF line.k = "tgt" THEN Ref("b/", line.f) ELSE DEV_NULL
              IN IF cur # 0 /\ files[cur].target_file # t THEN fail
                 ELSE IF cur = 0
                 THEN IF srcv = Unbound THEN fail
                      ELSE PatchSetParse(lines, i + 1, Append(files, PatchedFile(srcv, t)),
                             Len(files) + 1, FALSE, srcv)
                 ELSE PatchSetParse(lines, i + 1, files, cur, pinfo, srcv)
         [] line.k = "hdr" ->
              IF cur = 0 THEN fail
              ELSE LET h == ParseHunk(lines, i + 1, line.n, <<>>)
                   IN IF h.raised THEN fail
                      ELSE PatchSetParse(lines, h.next,
                             [files EXCEPT ![cur].hunks = Append(@, h.hunk)], cur, FALSE, srcv)
         [] line.k = "blank" ->
              IF cur = 0 THEN info
              ELSE IF files[cur].hunks = <<>> THEN fail
              ELSE PatchSetParse(lines, i + 1,
                     [files EXCEPT ![cur].hunks[Len(files[cur].hunks)] =
                        Append(@, [line_type |-> "", value |-> <<NL>>])],
                     cur, pinfo, srcv)
         [] OTHER -> info

PatchSet(diff_text) == PatchSetParse(diff_text, 1, <<>>, 0, FALSE, Unbound)

\* PatchedFile.is_rename and PatchedFile.path.
is_rename(pf) ==
  pf.source_file # DEV_NULL /\ pf.target_file # DEV_NULL
    /\ pf.source_file.name # pf.target_file.name

path(pf) ==
  LET filepath == IF pf.source_file = DEV_NULL \/ is_rename(pf)
                  THEN pf.target_file ELSE pf.source_file
  IN filepath.name

\* ---------------------------------------------------------- the parsers
HunkContext(fp, content, start) ==
  [file_path |-> fp, hunk_content |-> content, start_position |-> start]

\* f"{line.line_type}{line.value}": the type character joins the value's
\* first atom, or stands alone before a value that is only a line break.
LineStr(l) ==
  IF l.line_type = "" THEN l.value
  ELSE IF Head(l.value) = NL THEN <<l.line_type>> \o l.value
  ELSE <<l.line_type \o Head(l.value)>> \o Tail(l.value)

RECURSIVE FileHunks(_, _, _, _)
\* The loop over one file's hunks (main.py 161-179).
FileHunks(fp, hunks, j, position) ==
  IF j > Len(hunks) THEN <<>>
  ELSE LET hunk_start_position == position + 1
           hunk_lines == [q \in 1..Len(hunks[j]) |-> LineStr(hunks[j][q])]
           rest == FileHunks(fp, hunks, j + 1, position + 1 + Len(hunk_lines))
       IN IF hunk_lines # <<>>
          THEN <<HunkContext(fp, JoinNL(hunk_lines), hunk_start_position)>> \o rest
          ELSE rest

RECURSIVE StructuredHunks(_, _)
\* The loop over the files of the PatchSet (main.py 154-181).
StructuredHunks(files, j) ==
  IF j > Len(files) THEN <<>>
  ELSE IF path(files[j]) = DevNull \/ path(files[j]) = <<>>
       THEN StructuredHunks(files, j + 1)
       ELSE FileHunks(path(files[j]), files[j].hunks, 1, 1) \o StructuredHunks(files, j + 1)

\* The locals of parse_diff_manual at loop entry (main.py 186-190).
\* i is 0-based as in the source; current_file <<>> is None or "".
ManualInit ==
  [i |-> 0, position |-> 1, current_file |-> <<>>, hunks_with_context |-> <<>>]

RECURSIVE Collect(_, _)
\* The lines the inner while loop collects from 0-based index i on.
Collect(lines, i) ==
  IF i < Len(lines) /\ lines[i + 1].k # "hdr" /\ lines[i + 1].k # "git"
  THEN <<RawText(lines[i + 1])>> \o Collect(lines, i + 1)
  ELSE <<>>

\* ManualHunk with the `i += 1` that steps over the range header
\* (main.py 205) left out.
ManualHunkNoSkip(lines, m) ==
  LET hunk_start_position == m.position + 1
      hunk_lines == Collect(lines, m.i + 1)
  IN [m EXCEPT
        !.i = m.i + Len(hunk_lines),
        !.position = m.position + 1 + Len(hunk_lines),
        !.hunks_with_context =
           IF hunk_lines # <<>>
           THEN Append(@, HunkContext(m.current_file, JoinNL(hunk_lines),
                                      hunk_start_position))
           ELSE @]

\* The branch of a range header inside a file (main.py 201-221).
ManualHunk(lines, m) ==
  LET hunk_start_position == m.position + 1
      hunk_lines == Collect(lines, m.i + 1)
  IN [m EXCEPT
        !.i = m.i + 1 + Len(hunk_lines),
        !.position = m.position + 1 + Len(hunk_lines),
        !.hunks_with_context =
           IF hunk_lines # <<>>
           THEN Append(@, HunkContext(m.current_file, JoinNL(hunk_lines),
                                      hunk_start_position))
           ELSE @]

\* Any other line (main.py 196-200 and 223-225).
ManualLine(lines, m) ==
  LET line == lines[m.i + 1]
      cf == CASE line.k = "git" -> <<>>
              [] line.k = "tgt" -> line.f
              [] OTHER -> m.current_file
      pos == IF line.k = "git" THEN 1 ELSE m.position
  IN [m EXCEPT !.i = m.i + 1, !.current_file = cf,
               !.position = IF cf # <<>> THEN pos + 1 ELSE pos]

\* One iteration of the outer while loop (main.py 192-225).
ManualBody(lines, m) ==
  IF lines[m.i + 1].k = "hdr" /\ m.current_file # <<>>
  THEN ManualHunk(lines, m)
  ELSE ManualLine(lines, m)

RECURSIVE ManualRun(_, _)
ManualRun(lines, m) ==
  IF m.i < Len(lines) THEN ManualRun(lines, ManualBody(lines, m))
  ELSE m.hunks_with_context

parse_diff_manual(diff_text) == ManualRun(diff_text, ManualInit)

parse_diff_with_positions(diff_text) ==
  LET patch_set == PatchSet(diff_text)
  IN IF patch_set.raised THEN parse_diff_manual(diff_text)
     ELSE StructuredHunks(patch_set.files, 1)

\* ------------------------------------------------------------ the filter
RECURSIVE fnmatch(_, _)
\* fnmatch.fnmatch on a POSIX host (normcase is the identity there): "*"
\* matches any run of characters, "/" included, "?" one character, any
\* other character itself; the whole name must match.
fnmatch(name, pat) ==
  IF pat = <<>> THEN name = <<>>
  ELSE IF Head(pat) = "*"
       THEN fnmatch(name, Tail(pat)) \/ (name # <<>> /\ fnmatch(Tail(name), pat))
  ELSE IF Head(pat) = "?" THEN name # <<>> /\ fnmatch(Tail(name), Tail(pat))
  ELSE name # <<>> /\ Head(name) = Head(pat) /\ fnmatch(Tail(name), Tail(pat))

should_exclude_first(file_path, patterns) ==
  patterns # <<>> /\ fnmatch(file_path, patterns[1])

RECURSIVE should_exclude_file(_, _)
\* any(fnmatch.fnmatch(file_path, pattern) for pattern in exclude_patterns)
should_exclude_file(file_path, patterns) ==
  IF patterns = <<>> THEN FALSE
  ELSE fnmatch(file_path, Head(patterns)) \/ should_exclude_file(file_path, Tail(patterns))

RECURSIVE filter_hunks_by_file(_, _)
\* The loop of filter_hunks_by_file; what it returns is `filtered`.
filter_hunks_by_file(hunks, patterns) ==
  IF hunks = <<>> THEN <<>>
  ELSE IF should_exclude_file(Head(hunks).file_path, patterns)
       THEN filter_hunks_by_file(Tail(hunks), patterns)
       ELSE <<Head(hunks)>> \o filter_hunks_by_file(Tail(hunks), patterns)

Patterns == { <<"*", ".", "m">>, <<"s", "*">>, <<"?", "/", "a">>, <<"x">> }

\* ---------------------------------------------------------- the analysis
\* The names build_prompt imports from .prompts (main.py 232-235) and the
\* names prompts.py defines: an import of a name the module does not define
\* raises ImportError.
ImportedFromPrompts == {"reviewer_prompt", "user_inputs_template"}
PromptsModule == {"reviewer_prompt"}
build_prompt_raises == ~(ImportedFromPrompts \subseteq PromptsModule)

\* What agent.run_sync gives for one hunk: it raises, or returns a
\* ReviewResult whose reviews are ReviewItems (line_number >= 1); the q-th
\* item's review_comment is named q.
ReviewItem(ln, q) == [line_number |-> ln, review_comment |-> q]

Replies(nlines) ==
  {[raises |-> TRUE, reviews |-> <<>>]}
    \cup { [raises |-> FALSE, reviews |-> [q \in DOMAIN lns |-> ReviewItem(lns[q], q)]] :
             lns \in SeqsUpTo(1..(nlines + 1), MaxFindings) }

RECURSIVE Agents(_)
\* The answers the external model can give for a list of hunks.
Agents(hunks) ==
  IF hunks = <<>> THEN {<<>>}
  ELSE { <<r>> \o rest : r \in Replies(Len(splitlines(Head(hunks).hunk_content))),
                         rest \in Agents(Tail(hunks)) }

RECURSIVE ProcessItems(_, _, _)
\* The loop over review_result.reviews (main.py 297-312): the comments it
\* appends to acc.
ProcessItems(hunk, reviews, acc) ==
  IF reviews = <<>> THEN acc
  ELSE LET item == Head(reviews)
           hunk_lines == splitlines(hunk.hunk_content)
       IN IF item.line_number < 1 \/ item.line_number > Len(hunk_lines)
          THEN ProcessItems(hunk, Tail(reviews), acc)
          ELSE ProcessItems(hunk, Tail(reviews),
                 Append(acc, [path |-> hunk.file_path,
                              position |-> hunk.start_position + (item.line_number - 1),
                              body |-> item.review_comment]))

RECURSIVE AnalyzeLoop(_, _, _, _)
\* The loop over hunks (main.py 284-316). build_prompt is called outside the
\* try block: what it raises leaves analyze_hunks. [raised, review_comments].
AnalyzeLoop(hunks, agent, j, acc) ==
  IF j > Len(hunks) THEN [raised |-> FALSE, review_comments |-> acc]
  ELSE IF build_prompt_raises THEN [raised |-> TRUE, review_comments |-> acc]
  ELSE IF agent[j].raises THEN AnalyzeLoop(hunks, agent, j + 1, acc)
  ELSE AnalyzeLoop(hunks, agent, j + 1, ProcessItems(hunks[j], agent[j].reviews, acc))

analyze_hunks(hunks, agent) == AnalyzeLoop(hunks, agent, 1, <<>>)

\* ------------------------------------------------------- the submission
\* What the host does with the two requests of submit_review.  inline: the
\* calls of the outer try block (get_repo, get_pull, create_review) return,
\* raise a GithubException, or raise another exception (one of the
\* transport).  fallback: the calls of the inner try block (get_repo,
\* get_pull, create_issue_comment) return or raise.
GhOutcomes == [inline : {"ok", "GithubException", "Exception"}, fallback : {"ok", "raises"}]

NoSubmission ==
  [called |-> FALSE, raised |-> FALSE, returned |-> FALSE, inline_failed |-> FALSE,
   fallback_attempted |-> FALSE, fallback_failed |-> FALSE, posted |-> "none"]

\* submit_review(gh, pr_details, comments) (main.py 321-396): what it returns
\* (returned) or that it raises (raised), and what it posted.  The outer
\* handler catches GithubException only; the inner one catches Exception.
submit_review(g, comments) ==
  LET called == [NoSubmission EXCEPT !.called = TRUE]
  IN IF comments = <<>> THEN [called EXCEPT !.returned = TRUE]
     ELSE IF g.inline = "ok" THEN [called EXCEPT !.returned = TRUE, !.posted = "review"]
     ELSE IF g.inline = "GithubException"
          THEN IF g.fallback = "ok"
               THEN [called EXCEPT !.inline_failed = TRUE, !.fallback_attempted = TRUE,
                                   !.returned = TRUE, !.posted = "issue_comment"]
               ELSE [called EXCEPT !.inline_failed = TRUE, !.fallback_attempted = TRUE,
                                   !.fallback_failed = TRUE, !.returned = FALSE]
     ELSE [called EXCEPT !.inline_failed = TRUE, !.raised = TRUE]

\* The value main returns after submit_review (main.py 458-467): 0 when it
\* returned True, 1 when it returned False or raised.
ExitCodeOf(sub) == IF ~sub.raised /\ sub.returned THEN 0 ELSE 1

\* ---------------------------------------------------------------- state
\* exit_code is -1 as long as main has not returned.
VARIABLES diff_text, pc, mode, m, all_hunks,
          exclude_patterns, hunks_to_review, agent, analysis,
          gh, submission, exit_code

vars == <<diff_text, pc, mode, m, all_hunks,
          exclude_patterns, hunks_to_review, agent, analysis,
          gh, submission, exit_code>>

submit_vars == <<gh, submission, exit_code>>

review_vars == <<exclude_patterns, hunks_to_review, agent, analysis, submit_vars>>

NoAnalysis == [raised |-> FALSE, review_comments |-> <<>>]

NoGh == [inline |-> "ok", fallback |-> "ok"]

InitWith(diffs) ==
  /\ diff_text \in diffs
  /\ pc = "start"
  /\ mode = "none"
  /\ m = ManualInit
  /\ all_hunks = <<>>
  /\ exclude_patterns = <<>>
  /\ hunks_to_review = <<>>
  /\ agent = <<>>
  /\ analysis = NoAnalysis
  /\ gh = NoGh
  /\ submission = NoSubmission
  /\ exit_code = -1

Init == InitWith(Diffs)

\* parse_diff_with_positions when PatchSet(diff_text) returns.
ParseStructured ==
  /\ pc = "start"
  /\ ~PatchSet(diff_text).raised
  /\ all_hunks' = StructuredHunks(PatchSet(diff_text).files, 1)
  /\ pc' = "parsed"
  /\ mode' = "structured"
  /\ UNCHANGED <<diff_text, m, review_vars>>

\* parse_diff_with_positions when PatchSet raises: parse_diff_manual starts.
ParseFallback ==
  /\ pc = "start"
  /\ PatchSet(diff_text).raised
  /\ pc' = "manual"
  /\ mode' = "manual"
  /\ m' = ManualInit
  /\ UNCHANGED <<diff_text, all_hunks, review_vars>>

\* One iteration of parse_diff_manual's while loop.
ManualIter ==
  /\ pc = "manual"
  /\ m.i < Len(diff_text)
  /\ m' = ManualBody(diff_text, m)
  /\ UNCHANGED <<diff_text, pc, mode, all_hunks, review_vars>>

\* parse_diff_manual returns, and parse_diff_with_positions with it.
ManualReturn ==
  /\ pc = "manual"
  /\ ~(m.i < Len(diff_text))
  /\ all_hunks' = m.hunks_with_context
  /\ pc' = "parsed"
  /\ UNCHANGED <<diff_text, mode, m, review_vars>>

Next == ParseStructured \/ ParseFallback \/ ManualIter \/ ManualReturn

Spec == Init /\ [][Next]_vars

\* ------------------------------------------- the review pass (main.py 440-455)
MaxReviewLines == 12

\* The diffs the review pass is explored on: the short ones that end with a
\* line of a file header or of a hunk.
ReviewDiffs ==
  { t \in Diffs : Len(t) <= MaxReviewLines /\ t[Len(t)].k # "junk" }

InitReview == InitWith(ReviewDiffs)

\* all_hunks = parse_diff_with_positions(diff_text)
ReviewParse ==
  /\ pc = "start"
  /\ all_hunks' = parse_diff_with_positions(diff_text)
  /\ mode' = IF PatchSet(diff_text).raised THEN "manual" ELSE "structured"
  /\ pc' = "parsed"
  /\ UNCHANGED <<diff_text, m, review_vars>>

\* hunks_to_review = filter_hunks_by_file(all_hunks, exclude_patterns)
Filter ==
  /\ pc = "parsed"
  /\ \E ps \in SeqsUpTo(Patterns, MaxPatterns) :
       /\ exclude_patterns' = ps
       /\ hunks_to_review' = filter_hunks_by_file(all_hunks, ps)
  /\ pc' = "filtered"
  /\ UNCHANGED <<diff_text, mode, m, all_hunks, agent, analysis, submit_vars>>

\* main returns 0 when nothing is left to review.
NoHunksToReview ==
  /\ pc = "filtered"
  /\ hunks_to_review = <<>>
  /\ pc' = "done"
  /\ exit_code' = 0
  /\ UNCHANGED <<diff_text, mode, m, all_hunks,
                 exclude_patterns, hunks_to_review, agent, analysis, gh, submission>>

\* comments = analyze_hunks(agent, hunks_to_review, pr_details, language);
\* agent is what the external model would answer for each hunk.
Analyze ==
  /\ pc = "filtered"
  /\ hunks_to_review # <<>>
  /\ \E a \in Agents(hunks_to_review) :
       /\ agent' = a
       /\ analysis' = analyze_hunks(hunks_to_review, a)
  /\ pc' = IF analysis'.raised THEN "raised" ELSE "analyzed"
  /\ UNCHANGED <<diff_text, mode, m, all_hunks, exclude_patterns, hunks_to_review,
                 submit_vars>>

\* The end of main (main.py 455-467).  What analyze_hunks raised is caught
\* by main's handler, which returns 1; when analyze_hunks returned, its
\* comments are submitted and main returns what ExitCodeOf gives.
Return ==
  /\ pc \in {"raised", "analyzed"}
  /\ IF analysis.raised
     THEN /\ exit_code' = 1
          /\ UNCHANGED <<gh, submission>>
     ELSE \E g \in GhOutcomes :
            /\ gh' = g
            /\ submission' = submit_review(g, analysis.review_comments)
            /\ exit_code' = ExitCodeOf(submission')
  /\ pc' = "done"
  /\ UNCHANGED <<diff_text, mode, m, all_hunks,
                 exclude_patterns, hunks_to_review, agent, analysis>>

NextReview == ReviewParse \/ Filter \/ NoHunksToReview \/ Analyze \/ Return

SpecReview == InitReview /\ [][NextReview]_vars

\* The review pass up to the filter.
NextFilter == ReviewParse \/ Filter

SpecFilter == InitReview /\ [][NextFilter]_vars

\* ------------------------------------- submit_review on its own (321-396)
MaxComments == 2

\* The lists of comments submit_review is explored on.
CommentLists ==
  SeqsUpTo([path : {FileNames[1], FileNames[2]}, position : 2..3, body : 1..MaxFindings],
           MaxComments)

InitSubmit ==
  /\ diff_text = <<>>
  /\ pc = "submit"
  /\ mode = "none"
  /\ m = ManualInit
  /\ all_hunks = <<>>
  /\ exclude_patterns = <<>>
  /\ hunks_to_review = <<>>
  /\ agent = <<>>
  /\ analysis \in [raised : {FALSE}, review_comments : CommentLists]
  /\ gh = NoGh
  /\ submission = NoSubmission
  /\ exit_code = -1

\* submit_review(gh, pr_details, comments) and the value main makes of it.
SubmitReview ==
  /\ pc = "submit"
  /\ \E g \in GhOutcomes :
       /\ gh' = g
       /\ submission' = submit_review(g, analysis.review_comments)
       /\ exit_code' = ExitCodeOf(submission')
  /\ pc' = "submitted"
  /\ UNCHANGED <<diff_text, mode, m, all_hunks,
                 exclude_patterns, hunks_to_review, agent, analysis>>

NextSubmit == SubmitReview

SpecSubmit == InitSubmit /\ [][NextSubmit]_vars

\* ---------------------------------------------------------------- claims
\* The number of lines of a hunk's hunk_content, as analyze_hunks counts them.
NLines(h) == Len(splitlines(h.hunk_content))

\* Whether HunkContext j is the first one of its file in the parser's result.
FirstOfFile(hs, j) == j = 1 \/ hs[j - 1].file_path # hs[j].file_path

\* C1: for successive HunkContexts of one file the start_position values
\* strictly increase, and the gap is 1 (the range header) plus the number of
\* lines of the earlier hunk's hunk_content; a hunk dropped as empty in
\* between adds nothing.
C1_GapIsHeaderPlusContent ==
  pc = "parsed" =>
    \A j \in 1..(Len(all_hunks) - 1) :
      all_hunks[j].file_path = all_hunks[j + 1].file_path =>
        /\ all_hunks[j + 1].start_position > all_hunks[j].start_position
        /\ all_hunks[j + 1].start_position - all_hunks[j].start_position
             = 1 + NLines(all_hunks[j])

\* C2: the first HunkContext of every file has start_position 2, whichever
\* parser produced it and whatever precedes the file.
C2_FirstHunkStartsAtTwo ==
  pc = "parsed" =>
    \A j \in DOMAIN all_hunks :
      FirstOfFile(all_hunks, j) => all_hunks[j].start_position = 2

\* A diff as git writes it: PatchSet parses it, it holds no unrecognised and
\* no empty line, and every range header is followed by at least one line.
WellFormed(t) ==
  /\ ~PatchSet(t).raised
  /\ \A i \in DOMAIN t :
       /\ t[i].k \notin {"junk", "blank"}
       /\ t[i].k = "hdr" => t[i].n >= 1

PositionsOf(hs) ==
  [j \in DOMAIN hs |-> <<hs[j].file_path, hs[j].start_position>>]

\* C4: on a well-formed diff the structured parser and parse_diff_manual
\* yield the same sequence of (file_path, start_position).
C4_ParsersAgree ==
  (pc = "parsed" /\ mode = "structured" /\ WellFormed(diff_text)) =>
    PositionsOf(all_hunks) = PositionsOf(parse_diff_manual(diff_text))

\* The section of the diff that line i belongs to: the index of the last
\* "diff --git" line at or before i (0: none).
SectionOf(t, i) ==
  LET gs == { q \in 1..i : t[q].k = "git" }
  IN IF gs = {} THEN 0 ELSE CHOOSE q \in gs : \A r \in gs : r <= q

\* The names of the files whose target is /dev/null.
DeletedFiles(t) ==
  { t[SectionOf(t, i)].f : i \in { q \in DOMAIN t : t[q].k = "tgtnull" } }

\* The number of range headers in the sections of file f.
HeadersOf(t, f) ==
  Cardinality({ i \in DOMAIN t :
    t[i].k = "hdr" /\ SectionOf(t, i) # 0 /\ t[SectionOf(t, i)].f = f })

\* C8: no HunkContext is yielded for a deleted file, and no other file is
\* given more hunks than its own sections hold.
C8_DeletedFilesSkipped ==
  pc = "parsed" =>
    /\ \A j \in DOMAIN all_hunks : all_hunks[j].file_path \notin DeletedFiles(diff_text)
    /\ \A f \in { all_hunks[j].file_path : j \in DOMAIN all_hunks } :
         Cardinality({ j \in DOMAIN all_hunks : all_hunks[j].file_path = f })
           <= HeadersOf(diff_text, f)

\* C9: every HunkContext the parser returns has a non-empty file_path and a
\* hunk_content of at least one line.
C9_NoEmptyHunkContext ==
  pc = "parsed" =>
    \A j \in DOMAIN all_hunks :
      all_hunks[j].file_path # <<>> /\ NLines(all_hunks[j]) >= 1

C10_Step ==
  /\ pc = "start" => pc' \in {"parsed", "manual"}
  /\ (pc = "start" /\ PatchSet(diff_text).raised) =>
       (pc' = "manual" /\ m' = ManualInit)
  /\ (pc = "manual" /\ pc' = "manual") =>
       (m.i < m'.i /\ m'.i <= Len(diff_text))
  /\ (pc = "manual" /\ pc' # "manual") =>
       (pc' = "parsed" /\ m.i = Len(diff_text)
          /\ all_hunks' = m.hunks_with_context)

\* C10: parse_diff_with_positions ends with a list on every input: when
\* PatchSet raises, parse_diff_manual runs, its line index grows in every
\* iteration of its loop and never passes the end of the input, and what it
\* has collected is returned.
C10_ParserTerminates == [][C10_Step]_vars

\* A truncated input whose last line is a range header went through the
\* fallback to its end.
C10_Witness ==
  /\ pc = "parsed"
  /\ mode = "manual"
  /\ diff_text[Len(diff_text)].k = "hdr"
  /\ m.i = Len(diff_text)

\* The indices of the hunks whose file_path no pattern matches.
KeptIdx(hunks, patterns) ==
  { j \in DOMAIN hunks :
      \A q \in DOMAIN patterns : ~fnmatch(hunks[j].file_path, patterns[q]) }

\* The k-th smallest element of a set of numbers.
Nth(S, k) == CHOOSE j \in S : Cardinality({ x \in S : x <= j }) = k

\* C7: filter_hunks_by_file returns exactly the hunks that no pattern
\* matches, in their original order; with no pattern it returns its input,
\* and filtering its result again changes nothing.
C7_FilterKeepsUnmatched ==
  pc = "filtered" =>
    LET K == KeptIdx(all_hunks, exclude_patterns)
    IN /\ Len(hunks_to_review) = Cardinality(K)
       /\ \A k \in DOMAIN hunks_to_review : hunks_to_review[k] = all_hunks[Nth(K, k)]
       /\ filter_hunks_by_file(all_hunks, <<>>) = all_hunks
       /\ filter_hunks_by_file(hunks_to_review, exclude_patterns) = hunks_to_review

\* Two patterns, a hunk only the second one matches was dropped, and a hunk
\* behind it was kept.
C7_Witness ==
  /\ pc = "filtered"
  /\ Len(exclude_patterns) = 2
  /\ \E j \in DOMAIN all_hunks :
       /\ ~fnmatch(all_hunks[j].file_path, exclude_patterns[1])
       /\ fnmatch(all_hunks[j].file_path, exclude_patterns[2])
       /\ \E k \in DOMAIN all_hunks :
            k > j /\ ~should_exclude_file(all_hunks[k].file_path, exclude_patterns)
  /\ hunks_to_review # <<>>

\* Whether the q-th finding of hunk j is one the external model gave with a
\* line_number inside the hunk.
InRange(j, q) ==
  /\ ~agent[j].raises
  /\ q \in DOMAIN agent[j].reviews
  /\ agent[j].reviews[q].line_number >= 1
  /\ agent[j].reviews[q].line_number <= NLines(hunks_to_review[j])

Analysed == pc \in {"analyzed", "raised"}

\* C3: a finding yields a comment exactly when its line_number lies in
\* 1..N, at position start_position + (line_number - 1); no comment lies
\* outside its hunk's positions.
C3_InRangeFindingsResolve ==
  Analysed =>
    /\ \A j \in DOMAIN hunks_to_review : \A q \in DOMAIN agent[j].reviews :
         InRange(j, q) =>
           \E c \in DOMAIN analysis.review_comments :
             analysis.review_comments[c] =
               [path |-> hunks_to_review[j].file_path,
                position |-> hunks_to_review[j].start_position
                               + (agent[j].reviews[q].line_number - 1),
                body |-> q]
    /\ \A c \in DOMAIN analysis.review_comments :
         \E j \in DOMAIN hunks_to_review :
           /\ analysis.review_comments[c].path = hunks_to_review[j].file_path
           /\ analysis.review_comments[c].position >= hunks_to_review[j].start_position
           /\ analysis.review_comments[c].position
                <= hunks_to_review[j].start_position + NLines(hunks_to_review[j]) - 1

\* The findings that lie in range, as (hunk, finding) pairs in the order of
\* the hunks and, within a hunk, of its findings.
RECURSIVE InRangePairs(_, _)
InRangePairs(j, q) ==
  IF j > Len(hunks_to_review) THEN <<>>
  ELSE IF agent[j].raises \/ q > Len(agent[j].reviews) THEN InRangePairs(j + 1, 1)
  ELSE (IF InRange(j, q) THEN << <<j, q>> >> ELSE <<>>) \o InRangePairs(j, q + 1)

\* C5: the returned list holds one comment for each in-range finding, in
\* the order of the hunks and of the findings within a hunk.
C5_OneCommentPerFindingInOrder ==
  Analysed =>
    LET ps == InRangePairs(1, 1)
    IN /\ Len(analysis.review_comments) = Len(ps)
       /\ \A c \in DOMAIN ps :
            /\ analysis.review_comments[c].path = hunks_to_review[ps[c][1]].file_path
            /\ analysis.review_comments[c].body = ps[c][2]

\* C6: when the analysis of a hunk fails, analyze_hunks still returns: it
\* does not raise, and the hunks whose analysis did not fail all have their
\* comments.
C6_FailureStaysInItsHunk ==
  (Analysed /\ \E j \in DOMAIN agent : agent[j].raises) =>
    /\ ~analysis.raised
    /\ pc = "analyzed"
    /\ \A j \in DOMAIN hunks_to_review : \A q \in DOMAIN agent[j].reviews :
         InRange(j, q) =>
           \E c \in DOMAIN analysis.review_comments :
             /\ analysis.review_comments[c].path = hunks_to_review[j].file_path
             /\ analysis.review_comments[c].body = q

\* main has returned.
Returned == exit_code # -1

\* The final submission step failed totally: the inline review failed, the
\* fallback issue comment was attempted and failed too.
TotalSubmissionFailure ==
  /\ submission.inline_failed
  /\ submission.fallback_attempted
  /\ submission.fallback_failed

\* A run that fails is one whose submission failed totally.
FailsOnlyOnTotalFailure == (Returned /\ exit_code = 1) => TotalSubmissionFailure

\* A failure of the inline submission leads to a fallback attempt.
InlineFailureFallsBack == submission.inline_failed => submission.fallback_attempted

\* Nothing left after the filter, or no comment after the resolution: the
\* run succeeds and posts nothing.
NothingToPostSucceeds ==
  (Returned /\ ~analysis.raised /\ analysis.review_comments = <<>>)
    => (exit_code = 0 /\ submission.posted = "none")

\* C11: once the diff is retrieved, the run fails only when the submission
\* fails totally (the inline review fails and the fallback issue comment
\* fails too); every failure of the inline submission leads to a fallback
\* attempt; with zero hunks after the filter or zero comments after the
\* resolution the run succeeds and posts no comment.
C11_FailsOnlyOnTotalSubmissionFailure ==
  /\ FailsOnlyOnTotalFailure
  /\ InlineFailureFallsBack
  /\ NothingToPostSucceeds
====
